---- MODULE Spec2Model ----
(***************************************************************************)
(* The recording orchestrator of rrweb (src/src/record/index.ts): the     *)
(* emit pipeline (wrappedEmit), the checkpoint sequence                   *)
(* (takeFullSnapshot), session start (record), custom events and pause.  *)
(*                                                                         *)
(* Every handler runs to completion on one thread, so each action below   *)
(* is one whole handler.  The handlers call each other re-entrantly       *)
(* (emit -> checkpoint -> unlock flush -> emit); the operators that model *)
(* them are mutually recursive and thread the session state through as a  *)
(* record.  An operator yields the set of states its handler can end in:  *)
(* the serializer's outcome is the one choice a handler does not decide.  *)
(*                                                                         *)
(* MutationBuffer, initObservers and IframeManager live in files of the   *)
(* repository that are not part of the sources at hand (./observer,       *)
(* ./iframe-manager); they follow spec.md sections 4.2 and 4.3.           *)
(* The serializer (rrweb-snapshot) is an external library: each run may   *)
(* return a tree or none.  The optional packFn is not configured.         *)
(***************************************************************************)
EXTENDS Integers, Sequences, FiniteSets, TLC

\* ---------------------------------------------------------------- bounds
MaxMuts   == 2   \* tree mutations detected in one behaviour
MaxSteps  == 3   \* handlers run in one behaviour
MaxTime   == 2   \* Date.now() ranges over 0..MaxTime
MaxStops  == 2   \* calls of the disposer
MaxPauseSteps == 5   \* calls followed from a loaded page (SpecPause)

\* The observed page: the primary document and one embedded document.
Docs   == {"main", "frame"}
Frames == {"frame"}

\* Values of the two cadence options; 0 stands for "not configured"
\* (0 and undefined are both falsy at lines 182 and 184).
NthChoices == {0, 1, 2}
NmsChoices == {0, 1}

\* Inputs of the public calls: the tag of a custom event, and the argument of
\* an explicit takeFullSnapshot call (its default; the cadence rule passes
\* true).
Tags == {"a"}
CheckoutArgs == {"false"}

\* lastFullSnapshotEvent before the first FullSnapshot (declared, unassigned).
Undefined == -1

VARIABLES
  recorder,                  \* module-level `recorder` is assigned
  recording,                 \* Recorder.recording
  checkoutEveryNth,
  checkoutEveryNms,
  readyState,                \* document.readyState
  dclFired,                  \* DOMContentLoaded has been dispatched
  handlers,                  \* the `handlers` array of Recorder.record
  live,                      \* listeners / detector sets currently installed
  detachCalls,               \* how often each handler's detach function ran
  disposer,                  \* record() has returned its disposer
  stops,                     \* calls of the disposer so far
  mutationBuffers,
  incrementalSnapshotCount,
  lastFullSnapshotEvent,     \* its timestamp, or Undefined
  mirror,                    \* generation of mirror.map
  iframes,                   \* per embedded document: unseen / serialized / attached
  emitted,                   \* the events handed to onEmit, in order
  now,                       \* Date.now()
  nextMut,                   \* next tree-mutation id
  pauseSeq,                  \* history: ids detected while paused, in detection order
  lastResume,                \* history: the last activity-triggered resume
  tfsReturns,                \* history: how takeFullSnapshot calls returned
  winMuts,                   \* history: ids detected inside a lock window
  steps,                     \* history: handlers run so far
  budget,                    \* handlers a behaviour may run
  lastOp,                    \* history: the handler that ran last
  explicit,                  \* history: takeFullSnapshot was called from outside
  lastError                  \* history: the error the last handler raised

vars == << recorder, recording, checkoutEveryNth, checkoutEveryNms, readyState,
           dclFired, handlers, live, detachCalls, disposer, stops,
           mutationBuffers, incrementalSnapshotCount, lastFullSnapshotEvent,
           mirror, iframes, emitted, now, nextMut, pauseSeq, lastResume,
           tfsReturns, winMuts, steps, budget, lastOp, explicit,
           lastError >>

\* ------------------------------------------------------------ sequences
RECURSIVE Flatten(_)
Flatten(ss) == IF ss = << >> THEN << >> ELSE Head(ss) \o Flatten(Tail(ss))

Range(q) == { q[i] : i \in 1..Len(q) }

\* Sequencing: f applied to every state of S.  The states are bound one by
\* one, so that each intermediate state is computed once.
Bind(S, f(_)) == UNION { f(x) : x \in S }

\* ---------------------------------------------------------------- events
\* An event before it is wrapped: its type and its data.  muts carries the
\* ids of the tree mutations of a Mutation-source IncrementalSnapshot, tag
\* the tag of a Custom event.
Event(type, source, muts, tag) ==
  [type |-> type, source |-> source, muts |-> muts, tag |-> tag]

\* Lines 22-27: the event with timestamp Date.now().
wrapEvent(e, s) == [timestamp |-> s.now] @@ e

\* ------------------------------------------------- MutationBuffer (4.2)
NewBuffer(doc) ==
  [doc |-> doc, frozen |-> FALSE, locked |-> FALSE, pending |-> << >>]

AnyFrozen(bufs) == \E i \in 1..Len(bufs) : bufs[i].frozen
AnyLocked(bufs) == \E i \in 1..Len(bufs) : bufs[i].locked
AllPending(bufs) == UNION { Range(bufs[i].pending) : i \in 1..Len(bufs) }
HasBuffer(bufs, doc) == \E i \in 1..Len(bufs) : bufs[i].doc = doc
BufferOf(bufs, doc) == CHOOSE i \in 1..Len(bufs) : bufs[i].doc = doc

RECURSIVE wrappedEmit(_, _, _), takeFullSnapshot(_, _), bufEmit(_, _),
          unfreezeEach(_, _, _), unlockEach(_, _, _), detectEach(_, _)

\* The mutation callback handed to initObservers (lines 208-217) and to the
\* IframeManager (lines 193-202).
mutationCb(s, muts) ==
  wrappedEmit(s, wrapEvent(Event("IncrementalSnapshot", "Mutation", muts, ""), s),
              "undefined")

\* MutationBuffer.emit: nothing leaves a frozen or locked buffer; otherwise
\* the pending queue is handed to the mutation callback as one tree-mutation
\* event, in detection order, and the queue is empty from then on.
bufEmit(s0, i) ==
  Bind({s0}, LAMBDA s :
    IF s.exc # "none" THEN {s}
    ELSE LET b == s.mutationBuffers[i]
         IN  IF b.frozen \/ b.locked \/ b.pending = << >> THEN {s}
             ELSE mutationCb([s EXCEPT !.mutationBuffers[i].pending = << >>],
                             b.pending))

\* MutationBuffer.processMutations: queue the detected mutation, then emit.
\* The history notes the ids detected while paused and inside a lock window.
processMutations(s, i) ==
  LET id == s.nextMut
      b  == s.mutationBuffers[i]
  IN  bufEmit([s EXCEPT !.mutationBuffers[i].pending = Append(@, id),
                        !.nextMut  = id + 1,
                        !.pauseSeq = IF b.frozen THEN Append(@, id) ELSE @,
                        !.winMuts  = @ \cup { [id |-> id, doc |-> b.doc, win |-> w]
                                              : w \in s.openWins }], i)

\* MutationBuffer.unfreeze and MutationBuffer.unlock.
unfreeze(s, i) ==
  IF s.exc # "none" THEN {s}
  ELSE bufEmit([s EXCEPT !.mutationBuffers[i].frozen = FALSE], i)
unlock(s, i) ==
  IF s.exc # "none" THEN {s}
  ELSE bufEmit([s EXCEPT !.mutationBuffers[i].locked = FALSE], i)

\* mutationBuffers.forEach(buf => buf.unfreeze()) and (buf => buf.unlock()):
\* the buffers i..n in registration order; an exception ends the loop.
unfreezeEach(s0, i, n) ==
  Bind({s0}, LAMBDA s :
    IF i > n \/ s.exc # "none" THEN {s}
    ELSE Bind(unfreeze(s, i), LAMBDA s1 : unfreezeEach(s1, i + 1, n)))
unlockEach(s0, i, n) ==
  Bind({s0}, LAMBDA s :
    IF i > n \/ s.exc # "none" THEN {s}
    ELSE Bind(unlock(s, i), LAMBDA s1 : unlockEach(s1, i + 1, n)))

\* mutationBuffers.forEach(buf => buf.freeze()) and (buf => buf.lock()).
freezeAll(s) ==
  [s EXCEPT !.mutationBuffers =
              [i \in 1..Len(s.mutationBuffers) |-> [@[i] EXCEPT !.frozen = TRUE]]]
lockAll(s) ==
  [s EXCEPT !.mutationBuffers =
              [i \in 1..Len(s.mutationBuffers) |-> [@[i] EXCEPT !.locked = TRUE]]]

\* ----------------------------------------------------------- serializer
\* The documents whose detector reports a tree mutation while the
\* serializer runs (4.1 step 6, section 5), in the order of detection; only
\* an attached detector reports.
DetChoices ==
  { << >> } \cup { << d >> : d \in Docs } \cup { << d, e >> : d, e \in Docs }

detectEach(s0, det) ==
  Bind({s0}, LAMBDA s :
    IF det = << >> THEN {s}
    ELSE Bind(processMutations(s, BufferOf(s.mutationBuffers, Head(det))),
              LAMBDA s1 : detectEach(s1, Tail(det))))

\* snapshot(document, ...): it returns a tree or none.  It returns none
\* when the document node itself cannot be serialized, before any node is
\* walked; onSerialize registers every iframe element of a tree that was
\* walked.
snapshot(s) ==
  LET dets == { d \in DetChoices :
                  /\ \A k \in 1..Len(d) :
                       d[k] \in s.live /\ HasBuffer(s.mutationBuffers, d[k])
                  /\ s.nextMut + Len(d) <= MaxMuts + 1 }
      seen(x) == [x EXCEPT !.iframes = [f \in Frames |->
                    IF @[f] = "unseen" THEN "serialized" ELSE @[f]]]
  IN  { [node |-> FALSE, s |-> s] } \cup
      UNION { Bind(detectEach(s, d), LAMBDA s1 : { [node |-> TRUE, s |-> seen(s1)] })
              : d \in dets }

\* ------------------------------------------------------- emit pipeline
\* The entry of the delivered stream for event e: what onEmit received, and
\* history of the session at that moment.
Delivered(s, e, isCheckout, enterFrozen, enterFirst, held) ==
  [type |-> e.type, source |-> e.source, muts |-> e.muts, tag |-> e.tag,
   timestamp |-> e.timestamp, isCheckout |-> isCheckout,
   enterFrozen |-> enterFrozen,
   enterFirst  |-> enterFirst,
   delivFrozen |-> AnyFrozen(s.mutationBuffers),
   delivHeld   |-> held \cap AllPending(s.mutationBuffers) # {},
   base        |-> s.lastFullSnapshotEvent,
   countAfter  |-> IF e.type = "FullSnapshot" THEN 0
                   ELSE IF e.type = "IncrementalSnapshot"
                        THEN s.incrementalSnapshotCount + 1
                        ELSE s.incrementalSnapshotCount,
   triggered   |-> FALSE,
   ser         |-> "none"]

\* History: an activity-triggered resume starts here.
NoteResume(s) ==
  [s EXCEPT !.lastResume = [at |-> Len(s.emitted), seq |-> s.pauseSeq],
            !.pauseSeq = << >>]

\* The cadence rule with the count compared by > where line 182 has >=.
afterIncremental_CountStrict(s, e, idx) ==
  LET exceedCount == /\ s.checkoutEveryNth # 0
                     /\ s.incrementalSnapshotCount > s.checkoutEveryNth
      exceedTime  == /\ s.checkoutEveryNms # 0
                     /\ e.timestamp - s.lastFullSnapshotEvent > s.checkoutEveryNms
  IN  IF s.checkoutEveryNms # 0 /\ s.lastFullSnapshotEvent = Undefined
      THEN { [s EXCEPT !.exc = "TypeError"] }
      ELSE IF exceedCount \/ exceedTime
           THEN takeFullSnapshot([s EXCEPT !.emitted[idx].triggered = TRUE], "true")
           ELSE {s}

\* The cadence rule with the elapsed time compared by >= where line 185
\* has >.
afterIncremental_TimeInclusive(s, e, idx) ==
  LET exceedCount == /\ s.checkoutEveryNth # 0
                     /\ s.incrementalSnapshotCount >= s.checkoutEveryNth
      exceedTime  == /\ s.checkoutEveryNms # 0
                     /\ e.timestamp - s.lastFullSnapshotEvent >= s.checkoutEveryNms
  IN  IF s.checkoutEveryNms # 0 /\ s.lastFullSnapshotEvent = Undefined
      THEN { [s EXCEPT !.exc = "TypeError"] }
      ELSE IF exceedCount \/ exceedTime
           THEN takeFullSnapshot([s EXCEPT !.emitted[idx].triggered = TRUE], "true")
           ELSE {s}

\* The cadence rule replaced by a checkpoint after every IncrementalSnapshot,
\* whatever the options.
afterIncremental_Always(s, e, idx) ==
  IF s.checkoutEveryNms # 0 /\ s.lastFullSnapshotEvent = Undefined
  THEN { [s EXCEPT !.exc = "TypeError"] }
  ELSE takeFullSnapshot([s EXCEPT !.emitted[idx].triggered = TRUE], "true")

\* The cadence rule with one checkpoint per rule that asks for one, where
\* line 186 takes one for both.
afterIncremental_PerRule(s, e, idx) ==
  LET exceedCount == /\ s.checkoutEveryNth # 0
                     /\ s.incrementalSnapshotCount >= s.checkoutEveryNth
      exceedTime  == /\ s.checkoutEveryNms # 0
                     /\ e.timestamp - s.lastFullSnapshotEvent > s.checkoutEveryNms
  IN  IF s.checkoutEveryNms # 0 /\ s.lastFullSnapshotEvent = Undefined
      THEN { [s EXCEPT !.exc = "TypeError"] }
      ELSE Bind(IF exceedCount
                THEN takeFullSnapshot([s EXCEPT !.emitted[idx].triggered = TRUE], "true")
                ELSE {s},
             LAMBDA s1 :
               IF exceedTime
               THEN takeFullSnapshot([s1 EXCEPT !.emitted[idx].triggered = TRUE], "true")
               ELSE {s1})

\* Lines 179-189: the bookkeeping for an IncrementalSnapshot at position idx
\* of the delivered stream, and the cadence rule.
afterIncremental(s, e, idx) ==
  LET exceedCount == /\ s.checkoutEveryNth # 0
                     /\ s.incrementalSnapshotCount >= s.checkoutEveryNth
      exceedTime  == /\ s.checkoutEveryNms # 0
                     /\ e.timestamp - s.lastFullSnapshotEvent > s.checkoutEveryNms
  IN  IF s.checkoutEveryNms # 0 /\ s.lastFullSnapshotEvent = Undefined
      THEN { [s EXCEPT !.exc = "TypeError"] }
      ELSE IF exceedCount \/ exceedTime
           THEN takeFullSnapshot([s EXCEPT !.emitted[idx].triggered = TRUE], "true")
           ELSE {s}

\* Lines 161-190.
wrappedEmit(s0, e0, isCheckout) ==
  Bind({ << s0, e0 >> }, LAMBDA p :
    LET s == p[1]
        e == p[2]
        bufs == s.mutationBuffers
        resume == /\ Len(bufs) > 0
                  /\ bufs[1].frozen
                  /\ e.type # "FullSnapshot"
                  /\ ~(e.type = "IncrementalSnapshot" /\ e.source = "Mutation")
        held == Range(s.pauseSeq)
    IN
    IF s.exc # "none" THEN {s}
    ELSE
    Bind(IF resume THEN unfreezeEach(NoteResume(s), 1, Len(bufs)) ELSE {s},
      LAMBDA s1 :
        IF s1.exc # "none" THEN {s1}
        ELSE
        Bind({ [s1 EXCEPT !.emitted = Append(@,
                   Delivered(s1, e, isCheckout, AnyFrozen(bufs),
                             Len(bufs) > 0 /\ bufs[1].frozen, held))] },
          LAMBDA s2 :
            IF e.type = "FullSnapshot"
            THEN { [s2 EXCEPT !.lastFullSnapshotEvent = e.timestamp,
                              !.incrementalSnapshotCount = 0] }
            ELSE IF e.type = "IncrementalSnapshot"
            THEN Bind({ [s2 EXCEPT !.incrementalSnapshotCount = @ + 1] },
                   LAMBDA s3 : afterIncremental(s3, e, Len(s3.emitted)))
            ELSE {s2})))

\* Lines 363-392 with the unlock of line 392 moved before the emit of
\* lines 368-391.
afterSnapshot_UnlockFirst(r, win) ==
  IF ~r.node
  THEN { [r.s EXCEPT !.emitted[win].ser = "fail",
                     !.openWins = @ \ {win},
                     !.tfsReturns = @ \cup
                        { [ok |-> FALSE, locked |-> AnyLocked(r.s.mutationBuffers)] }] }
  ELSE
  Bind({ [r.s EXCEPT !.mirror = win + 1, !.emitted[win].ser = "ok"] }, LAMBDA s4 :
    Bind(unlockEach(s4, 1, Len(s4.mutationBuffers)), LAMBDA s5 :
      Bind(wrappedEmit(s5, wrapEvent(Event("FullSnapshot", "", << >>, ""), s5),
                       "undefined"), LAMBDA s6 :
        IF s6.exc # "none" THEN {s6}
        ELSE { [s6 EXCEPT !.openWins = @ \ {win},
                          !.tfsReturns = @ \cup
                             { [ok |-> TRUE,
                                locked |-> AnyLocked(s6.mutationBuffers)] }] })))

\* Lines 363-392 with the isCheckout argument of the call passed on to the
\* emit of the FullSnapshot (lines 368-391).
afterSnapshot_FlagOnFull(r, win) ==
  IF ~r.node
  THEN { [r.s EXCEPT !.emitted[win].ser = "fail",
                     !.openWins = @ \ {win},
                     !.tfsReturns = @ \cup
                        { [ok |-> FALSE, locked |-> AnyLocked(r.s.mutationBuffers)] }] }
  ELSE
  Bind({ [r.s EXCEPT !.mirror = win + 1, !.emitted[win].ser = "ok"] }, LAMBDA s4 :
    Bind(wrappedEmit(s4, wrapEvent(Event("FullSnapshot", "", << >>, ""), s4),
                     s4.emitted[win].isCheckout), LAMBDA s5 :
      Bind(unlockEach(s5, 1, Len(s5.mutationBuffers)), LAMBDA s6 :
        IF s6.exc # "none" THEN {s6}
        ELSE { [s6 EXCEPT !.openWins = @ \ {win},
                          !.tfsReturns = @ \cup
                             { [ok |-> TRUE,
                                locked |-> AnyLocked(s6.mutationBuffers)] }] })))

\* Lines 363-392: after the serializer returned r for the checkpoint whose
\* Meta is at position win of the delivered stream.
afterSnapshot(r, win) ==
  IF ~r.node
  THEN { [r.s EXCEPT !.emitted[win].ser = "fail",
                     !.openWins = @ \ {win},
                     !.tfsReturns = @ \cup
                        { [ok |-> FALSE, locked |-> AnyLocked(r.s.mutationBuffers)] }] }
  ELSE
  Bind({ [r.s EXCEPT !.mirror = win + 1, !.emitted[win].ser = "ok"] }, LAMBDA s4 :
    Bind(wrappedEmit(s4, wrapEvent(Event("FullSnapshot", "", << >>, ""), s4),
                     "undefined"), LAMBDA s5 :
      Bind(unlockEach(s5, 1, Len(s5.mutationBuffers)), LAMBDA s6 :
        IF s6.exc # "none" THEN {s6}
        ELSE { [s6 EXCEPT !.openWins = @ \ {win},
                          !.tfsReturns = @ \cup
                             { [ok |-> TRUE,
                                locked |-> AnyLocked(s6.mutationBuffers)] }] })))

\* Lines 337-393.  The position of this checkpoint's Meta in the delivered
\* stream names the checkpoint in the history.
takeFullSnapshot(s0, isCheckout) ==
  Bind({s0}, LAMBDA s :
    IF s.exc # "none" THEN {s}
    ELSE
    Bind(wrappedEmit(s, wrapEvent(Event("Meta", "", << >>, ""), s), isCheckout),
      LAMBDA s1 :
        IF s1.exc # "none" THEN {s1}
        ELSE Bind(snapshot(lockAll([s1 EXCEPT !.openWins = @ \cup {Len(s1.emitted)}])),
                  LAMBDA r : afterSnapshot(r, Len(s1.emitted)))))

\* ------------------------------------------------------------- handlers
\* initObservers (this.observe, lines 205-334): a MutationBuffer for the
\* document joins mutationBuffers and the document's detectors are
\* installed; the result is their detach function.
observe(s, doc) ==
  IF s.exc # "none" THEN s
  ELSE [s EXCEPT !.mutationBuffers = Append(@, NewBuffer(doc)),
                 !.handlers = Append(@, doc),
                 !.live = @ \cup {doc}]

\* Lines 413-416.
init(s) == Bind(takeFullSnapshot(s, "false"), LAMBDA s1 : { observe(s1, "main") })

\* Lines 395-446, Recorder.record.  An error inside the try block is
\* reported as a warning and no disposer is returned.
Recorder_record(s) ==
  Bind({ [s EXCEPT !.handlers = Append(@, "dcl"), !.live = @ \cup {"dcl"}] },
    LAMBDA s1 :
      Bind(IF s1.readyState \in {"interactive", "complete"}
           THEN init(s1)
           ELSE { [s1 EXCEPT !.handlers = Append(@, "load"),
                             !.live = @ \cup {"load"}] },
        LAMBDA s2 :
          IF s2.exc # "none"
          THEN { [s2 EXCEPT !.exc = "none"] }
          ELSE { [s2 EXCEPT !.disposer = TRUE] }))

\* record(options) without the check of lines 478-480.
record_Unchecked(s, hasEmit, nth, nms) ==
  Recorder_record([s EXCEPT !.recorder = TRUE,
                            !.checkoutEveryNth = nth,
                            !.checkoutEveryNms = nms])

\* Lines 471-484, record(options).
record(s, hasEmit, nth, nms) ==
  IF ~hasEmit
  THEN { [s EXCEPT !.exc = "ConfigError"] }
  ELSE Recorder_record([s EXCEPT !.recorder = TRUE,
                                 !.checkoutEveryNth = nth,
                                 !.checkoutEveryNms = nms])

\* Lines 399-406: the DOMContentLoaded listener.
onDOMContentLoaded(s) ==
  wrappedEmit(s, wrapEvent(Event("DomContentLoaded", "", << >>, ""), s),
              "undefined")

\* Lines 426-434: the load listener.
onLoad(s) ==
  Bind(wrappedEmit(s, wrapEvent(Event("Load", "", << >>, ""), s), "undefined"),
       LAMBDA s1 : init(s1))

\* The MutationObserver callback of the detectors installed on doc.
detectMutation(s, doc) ==
  processMutations(s, BufferOf(s.mutationBuffers, doc))

\* Lines 228-237: mouseInteractionCb, standing for every detector callback
\* whose event is an IncrementalSnapshot of another source than Mutation.
mouseInteractionCb(s) ==
  wrappedEmit(s, wrapEvent(Event("IncrementalSnapshot", "MouseInteraction",
                                 << >>, ""), s), "undefined")

\* Lines 448-462, Recorder.addCustomEvent.
addCustomEvent(s, tag) ==
  IF ~s.recording
  THEN { [s EXCEPT !.exc = "IllegalState"] }
  ELSE wrappedEmit(s, wrapEvent(Event("Custom", "", << >>, tag), s), "undefined")

\* record.addCustomEvent without the check of lines 487-489: the method is
\* looked up on undefined.
record_addCustomEvent_Unchecked(s, tag) ==
  IF ~s.recorder
  THEN { [s EXCEPT !.exc = "TypeError"] }
  ELSE addCustomEvent(s, tag)

\* Lines 486-491, record.addCustomEvent.
record_addCustomEvent(s, tag) ==
  IF ~s.recorder
  THEN { [s EXCEPT !.exc = "IllegalState"] }
  ELSE addCustomEvent(s, tag)

\* Lines 464-466 and 493-495, freezePage; without a recorder the call
\* dereferences undefined.
record_freezePage(s) ==
  IF ~s.recorder THEN { [s EXCEPT !.exc = "TypeError"] } ELSE { freezeAll(s) }

\* IframeManager.attachIframe (4.3): the embedded tree is emitted as a tree
\* mutation through the manager's mutationCb (lines 193-202), then the load
\* listener of lines 409-411 observes the embedded document.
attachIframe(s, f) ==
  Bind(mutationCb([s EXCEPT !.iframes[f] = "attached"], << >>),
       LAMBDA s1 : { observe(s1, f) })

\* Lines 439-441, the disposer: every handler collected so far is called.
dispose(s) ==
  { [s EXCEPT !.live = @ \ Range(s.handlers),
              !.detachCalls = [h \in DOMAIN @ |->
                                 IF h \in Range(s.handlers) THEN @[h] + 1 ELSE @[h]],
              !.stops = @ + 1] }

\* The browser dispatches DOMContentLoaded / load to the listeners that are
\* installed.
dispatchDOMContentLoaded(s) ==
  Bind({ [s EXCEPT !.dclFired = TRUE,
                   !.readyState = IF @ = "loading" THEN "interactive" ELSE @] },
       LAMBDA s1 : IF "dcl" \in s1.live THEN onDOMContentLoaded(s1) ELSE {s1})

dispatchLoad(s) ==
  Bind({ [s EXCEPT !.readyState = "complete"] },
       LAMBDA s1 : IF "load" \in s1.live THEN onLoad(s1) ELSE {s1})

\* ------------------------------------------------------------ the state
HandlerIds == {"dcl", "load"} \cup Docs

\* The session state as the record the handlers work on.  exc is the
\* exception in flight, openWins the checkpoints between lock and unlock.
Session ==
  [recorder |-> recorder, recording |-> recording,
   checkoutEveryNth |-> checkoutEveryNth, checkoutEveryNms |-> checkoutEveryNms,
   readyState |-> readyState, dclFired |-> dclFired,
   handlers |-> handlers, live |-> live, detachCalls |-> detachCalls,
   disposer |-> disposer, stops |-> stops,
   mutationBuffers |-> mutationBuffers,
   incrementalSnapshotCount |-> incrementalSnapshotCount,
   lastFullSnapshotEvent |-> lastFullSnapshotEvent,
   mirror |-> mirror, iframes |-> iframes, emitted |-> emitted, now |-> now,
   nextMut |-> nextMut, pauseSeq |-> pauseSeq, lastResume |-> lastResume,
   tfsReturns |-> tfsReturns, winMuts |-> winMuts,
   exc |-> "none", openWins |-> {}]

Op(name, arg) == [name |-> name, arg |-> arg]

Commit(r, op) ==
  /\ recorder' = r.recorder
  /\ recording' = r.recording
  /\ checkoutEveryNth' = r.checkoutEveryNth
  /\ checkoutEveryNms' = r.checkoutEveryNms
  /\ readyState' = r.readyState
  /\ dclFired' = r.dclFired
  /\ handlers' = r.handlers
  /\ live' = r.live
  /\ detachCalls' = r.detachCalls
  /\ disposer' = r.disposer
  /\ stops' = r.stops
  /\ mutationBuffers' = r.mutationBuffers
  /\ incrementalSnapshotCount' = r.incrementalSnapshotCount
  /\ lastFullSnapshotEvent' = r.lastFullSnapshotEvent
  /\ mirror' = r.mirror
  /\ iframes' = r.iframes
  /\ emitted' = r.emitted
  /\ nextMut' = r.nextMut
  /\ pauseSeq' = r.pauseSeq
  /\ lastResume' = r.lastResume
  /\ tfsReturns' = r.tfsReturns
  /\ winMuts' = r.winMuts
  /\ now' = r.now
  /\ steps' = steps + 1
  /\ budget' = budget
  /\ lastOp' = op
  /\ explicit' = (explicit \/ op.name = "checkpoint")
  /\ lastError' = r.exc

\* The state before record() is called, with b calls to follow.  The page
\* is still loading, or interactive with DOMContentLoaded yet to be
\* dispatched, or loaded (a page that is interactive after DOMContentLoaded
\* takes the same branch of lines 417-438 as a loaded one).
Start(b) ==
  /\ recorder = FALSE
  /\ recording = FALSE
  /\ checkoutEveryNth = 0
  /\ checkoutEveryNms = 0
  /\ readyState \in {"loading", "interactive", "complete"}
  /\ dclFired \in BOOLEAN
  /\ (readyState = "loading" => ~dclFired)
  /\ (readyState = "complete" => dclFired)
  /\ (readyState = "interactive" => ~dclFired)
  /\ handlers = << >>
  /\ live = {}
  /\ detachCalls = [h \in HandlerIds |-> 0]
  /\ disposer = FALSE
  /\ stops = 0
  /\ mutationBuffers = << >>
  /\ incrementalSnapshotCount = 0
  /\ lastFullSnapshotEvent = Undefined
  /\ mirror = 0
  /\ iframes = [f \in Frames |-> "unseen"]
  /\ emitted = << >>
  /\ now = 0
  /\ nextMut = 1
  /\ pauseSeq = << >>
  /\ lastResume = [at |-> 0, seq |-> << >>]
  /\ tfsReturns = {}
  /\ winMuts = {}
  /\ steps = 0
  /\ budget = b
  /\ lastOp = Op("none", "")
  /\ explicit = FALSE
  /\ lastError = "none"

Init == Start(MaxSteps)

Room == steps < budget

\* record(options), with and without the emit callback.
Record ==
  /\ Room
  /\ ~recorder
  /\ \E hasEmit \in BOOLEAN, nth \in NthChoices, nms \in NmsChoices :
       /\ (~hasEmit => nth = 0 /\ nms = 0)
       /\ \E r \in record(Session, hasEmit, nth, nms) :
            Commit(r, Op("record", << hasEmit, nth, nms >>))

DOMContentLoaded ==
  /\ Room /\ recorder /\ ~dclFired
  /\ \E r \in dispatchDOMContentLoaded(Session) : Commit(r, Op("dcl", ""))

Load ==
  /\ Room /\ recorder /\ dclFired /\ readyState # "complete"
  /\ \E r \in dispatchLoad(Session) : Commit(r, Op("load", ""))

DetectMutation ==
  /\ Room
  /\ nextMut <= MaxMuts
  /\ \E doc \in Docs :
       /\ doc \in live
       /\ \E r \in detectMutation(Session, doc) : Commit(r, Op("mutation", doc))

DetectInteraction ==
  /\ Room
  /\ \E doc \in Docs : doc \in live
  /\ \E r \in mouseInteractionCb(Session) : Commit(r, Op("interaction", ""))

AddCustomEvent ==
  /\ Room
  /\ \E tag \in Tags :
       \E r \in record_addCustomEvent(Session, tag) : Commit(r, Op("custom", tag))

FreezePage ==
  /\ Room
  /\ \E r \in record_freezePage(Session) : Commit(r, Op("freeze", ""))

Checkpoint ==
  /\ Room /\ recorder
  /\ \E isCheckout \in CheckoutArgs :
       \E r \in takeFullSnapshot(Session, isCheckout) :
         Commit(r, Op("checkpoint", isCheckout))

IframeLoad ==
  /\ Room
  /\ \E f \in Frames :
       /\ iframes[f] = "serialized"
       /\ \E r \in attachIframe(Session, f) : Commit(r, Op("iframeLoad", f))

Stop ==
  /\ Room /\ disposer /\ stops < MaxStops
  /\ \E r \in dispose(Session) : Commit(r, Op("stop", ""))

\* Time passes between two handlers; the clock is read by the time rule only.
Tick ==
  /\ Room /\ recorder /\ checkoutEveryNms # 0
  /\ \E t \in (now + 1)..MaxTime :
       Commit([Session EXCEPT !.now = t], Op("tick", ""))

Next ==
  \/ Record
  \/ DOMContentLoaded
  \/ Load
  \/ DetectMutation
  \/ DetectInteraction
  \/ AddCustomEvent
  \/ FreezePage
  \/ Checkpoint
  \/ IframeLoad
  \/ Stop
  \/ Tick

Spec == Init /\ [][Next]_vars

\* ======================================================= the claims
\* The delivered stream, read back.
IsInc(i)  == emitted[i].type = "IncrementalSnapshot"
IsFull(i) == emitted[i].type = "FullSnapshot"
IsMeta(i) == emitted[i].type = "Meta"
IsTreeMutation(i) == IsInc(i) /\ emitted[i].source = "Mutation"
FullsBefore(i) == { j \in 1..(i - 1) : IsFull(j) }
LastFull(i) == CHOOSE j \in FullsBefore(i) : \A k \in FullsBefore(i) : k <= j
IncSince(i) ==
  Cardinality({ k \in 1..i : IsInc(k) /\ \A j \in FullsBefore(i) : j < k })

\* The state a failed call must leave alone.
sessionVars ==
  << recorder, recording, checkoutEveryNth, checkoutEveryNms, handlers, live,
     detachCalls, disposer, stops, mutationBuffers, incrementalSnapshotCount,
     lastFullSnapshotEvent, mirror, iframes, emitted >>

\* C1 (as claimed): every IncrementalSnapshot delivered to the consumer is
\* preceded in the delivered stream by a FullSnapshot.
C1_CheckpointPrecedence ==
  \A i \in 1..Len(emitted) : IsInc(i) => FullsBefore(i) # {}

\* C7 (as claimed): when the serializer returns no tree, no Mutation Buffer
\* is serialize-locked at the moment takeFullSnapshot returns.
C7_FailureReleasesLocks ==
  \A r \in tfsReturns : ~r.ok => ~r.locked

\* C8 (as claimed): addCustomEvent called after start has completed delivers
\* exactly one Custom event carrying the given tag and raises no error.
C8_CustomEventDelivered ==
  [][ (lastOp'.name = "custom" /\ recorder /\ disposer)
        => /\ lastError' = "none"
           /\ Len(emitted') = Len(emitted) + 1
           /\ emitted'[Len(emitted')].type = "Custom"
           /\ emitted'[Len(emitted')].tag = lastOp'.arg ]_vars

\* C9: addCustomEvent called before start fails with the illegal-state
\* error, delivers no event and changes no session state.
C9_CustomEventBeforeStart ==
  [][ (lastOp'.name = "custom" /\ ~recorder)
        => (lastError' = "IllegalState" /\ UNCHANGED sessionVars) ]_vars

C9_Witness ==
  lastOp.name = "custom" /\ ~recorder /\ lastError = "IllegalState"

\* C10: start without the emit callback fails with the configuration
\* error; no session is created, no detector is installed and no event is
\* delivered.
C10_StartWithoutEmit ==
  [][ (lastOp'.name = "record" /\ ~lastOp'.arg[1])
        => /\ lastError' = "ConfigError"
           /\ ~recorder'
           /\ live' = {}
           /\ emitted' = << >>
           /\ UNCHANGED sessionVars ]_vars

C10_Witness ==
  /\ lastOp.name = "record"
  /\ ~lastOp.arg[1]
  /\ lastError = "ConfigError"
  /\ ~recorder

\* Where a tree mutation is in the delivered stream: the events that carry
\* it, and its places in the event at position i.
DeliveryOf(id) == { i \in 1..Len(emitted) : id \in Range(emitted[i].muts) }
PlacesIn(i, id) == { k \in 1..Len(emitted[i].muts) : emitted[i].muts[k] = id }
DeliveredOnce(id) ==
  /\ Cardinality(DeliveryOf(id)) <= 1
  /\ \A i \in DeliveryOf(id) : Cardinality(PlacesIn(i, id)) = 1
\* Every delivery of a comes before every delivery of b.
DeliveredBefore(a, b) ==
  \A i \in DeliveryOf(a) : \A j \in DeliveryOf(b) :
    \/ i < j
    \/ i = j /\ \A k \in PlacesIn(i, a) : \A l \in PlacesIn(i, b) : k < l
QueuedIn(id) ==
  { i \in 1..Len(mutationBuffers) : id \in Range(mutationBuffers[i].pending) }
\* The mutations detected between the lock and the unlock of a checkpoint
\* that delivered its FullSnapshot (at the position after its Meta).
LockedMuts == { w \in winMuts : emitted[w.win].ser = "ok" }

\* C2 (as claimed): the mutations detected between the lock and the unlock
\* of a checkpoint are delivered after that checkpoint's FullSnapshot and in
\* the order of their detection.
C2_LockIntegrity ==
  \A w \in LockedMuts :
    /\ \A i \in DeliveryOf(w.id) : i > w.win + 1
    /\ \A v \in LockedMuts :
         (v.win = w.win /\ w.id < v.id) => DeliveredBefore(w.id, v.id)

\* C2 (amended): a mutation detected between the lock and the unlock of a
\* checkpoint is never delivered before that checkpoint's FullSnapshot; it
\* is delivered at most once, and until then it is queued in its buffer,
\* which is paused or locked; the mutations of one document are delivered
\* in the order of their detection.
C2_LockIntegrityPerBuffer ==
  \A w \in LockedMuts :
    /\ \A i \in DeliveryOf(w.id) : i > w.win + 1
    /\ DeliveredOnce(w.id)
    /\ DeliveryOf(w.id) = {} =>
         /\ QueuedIn(w.id) # {}
         /\ \A i \in QueuedIn(w.id) :
              mutationBuffers[i].frozen \/ mutationBuffers[i].locked
    /\ \A v \in LockedMuts :
         (v.win = w.win /\ v.doc = w.doc /\ w.id < v.id)
           => DeliveredBefore(w.id, v.id)

C2_Witness ==
  \E w \in LockedMuts : \E i \in DeliveryOf(w.id) :
    /\ IsFull(w.win + 1)
    /\ i > w.win + 1

\* C5 (as claimed): with checkoutEveryNth = N, no more than N
\* IncrementalSnapshots are delivered after a FullSnapshot without a new
\* FullSnapshot between them.
C5_CountCadence ==
  checkoutEveryNth # 0 =>
    \A i \in 1..Len(emitted) :
      (IsInc(i) /\ FullsBefore(i) # {}) => IncSince(i) <= checkoutEveryNth

\* C5 (amended): with checkoutEveryNth = N, the delivery of an
\* IncrementalSnapshot that is the Nth or a later one since the last
\* FullSnapshot starts a checkpoint: a Meta with isCheckout set follows it,
\* and the FullSnapshot follows that Meta when the serializer returned a
\* tree.
C5_CountCadenceStarted ==
  checkoutEveryNth # 0 =>
    \A i \in 1..Len(emitted) :
      (IsInc(i) /\ FullsBefore(i) # {} /\ IncSince(i) >= checkoutEveryNth)
        => /\ emitted[i].triggered
           /\ \E j \in (i + 1)..Len(emitted) :
                /\ IsMeta(j)
                /\ emitted[j].isCheckout = "true"
                /\ emitted[j].ser # "none"
                /\ emitted[j].ser = "ok" => (j < Len(emitted) /\ IsFull(j + 1))

C5_Witness ==
  /\ checkoutEveryNth = 2
  /\ \E i \in 1..Len(emitted) :
       /\ IsInc(i) /\ FullsBefore(i) # {} /\ IncSince(i) = 2
       /\ i + 2 <= Len(emitted)
       /\ IsMeta(i + 1) /\ emitted[i + 1].isCheckout = "true"
       /\ IsFull(i + 2)

\* When the cadence rules call for a checkpoint at the delivery of the
\* IncrementalSnapshot at position i.
ElapsedAt(i) == emitted[i].timestamp - emitted[LastFull(i)].timestamp
CountDue(i) == checkoutEveryNth # 0 /\ IncSince(i) >= checkoutEveryNth

\* C6 (as claimed): with checkoutEveryNms = T, an IncrementalSnapshot whose
\* timestamp is T or more after the last FullSnapshot's starts a checkpoint.
C6_TimeCadence ==
  checkoutEveryNms # 0 =>
    \A i \in 1..Len(emitted) :
      (IsInc(i) /\ FullsBefore(i) # {} /\ ElapsedAt(i) >= checkoutEveryNms)
        => emitted[i].triggered

\* C6 (amended): with checkoutEveryNms = T, an IncrementalSnapshot whose
\* timestamp is more than T after the last FullSnapshot's starts a
\* checkpoint (a Meta with isCheckout set follows it); at T or less, only
\* the count rule starts one.
C6_TimeCadenceStrict ==
  checkoutEveryNms # 0 =>
    \A i \in 1..Len(emitted) :
      (IsInc(i) /\ FullsBefore(i) # {})
        => /\ ElapsedAt(i) > checkoutEveryNms
                => /\ emitted[i].triggered
                   /\ \E j \in (i + 1)..Len(emitted) :
                        IsMeta(j) /\ emitted[j].isCheckout = "true"
           /\ emitted[i].triggered
                => (ElapsedAt(i) > checkoutEveryNms \/ CountDue(i))

C6_Witness ==
  /\ checkoutEveryNms # 0
  /\ \E i \in 1..Len(emitted) :
       /\ IsInc(i) /\ FullsBefore(i) # {}
       /\ ElapsedAt(i) > checkoutEveryNms
       /\ ~CountDue(i)
       /\ emitted[i].triggered

\* ------------------------------------------------- pause and resume
\* The sessions of a loaded page that is paused, mutated, checkpointed and
\* touched, followed for MaxPauseSteps calls.
InitPause == Start(MaxPauseSteps) /\ readyState = "complete"
NextPause ==
  \/ Record
  \/ FreezePage
  \/ DetectMutation
  \/ DetectInteraction
  \/ Checkpoint
  \/ IframeLoad
SpecPause == InitPause /\ [][NextPause]_vars

\* The mutations delivered after the last activity-triggered resume began.
DeliveredSince(at) ==
  Flatten([i \in 1..(Len(emitted) - at) |-> emitted[at + i].muts])
WasWithheld(id) == id \in Range(lastResume.seq)

\* C3 (as claimed): once the handler that resumed the session has returned,
\* the mutations detected during the pause have been delivered, each once
\* and in the order of their detection.
C3_PauseIntegrity ==
  SelectSeq(DeliveredSince(lastResume.at), WasWithheld) = lastResume.seq

\* C4 (as claimed): an event that is neither a FullSnapshot nor a tree
\* mutation and enters the emit pipeline while a buffer is paused is
\* delivered with no buffer paused and after the mutations withheld by the
\* pause.
C4_ActivityResume ==
  \A i \in 1..Len(emitted) :
    (~IsFull(i) /\ ~IsTreeMutation(i) /\ emitted[i].enterFrozen)
      => (~emitted[i].delivFrozen /\ ~emitted[i].delivHeld)

\* ------------------------------------------------------------- stop
\* The events a step delivers.
NewEvents == { i \in 1..Len(emitted') : i > Len(emitted) }

\* C11 (as claimed): a second or later call of the disposer invokes no
\* detach handler again, changes no state and raises no error.
C11_IdempotentStop ==
  [][ (lastOp'.name = "stop" /\ stops >= 1)
        => /\ lastError' = "none"
           /\ UNCHANGED << detachCalls, live, handlers, mutationBuffers,
                           emitted, incrementalSnapshotCount,
                           lastFullSnapshotEvent, mirror >> ]_vars

\* C12 (as claimed): once the disposer has been called no detector is
\* attached on any document, also after an embedded document became ready,
\* and no IncrementalSnapshot is delivered any more.
C12_StopComplete ==
  [][ stops >= 1
        => /\ live' = {}
           /\ \A i \in NewEvents : emitted'[i].type # "IncrementalSnapshot" ]_vars

\* ------------------------------------------------- the first events
Metas == { i \in 1..Len(emitted) : IsMeta(i) }
Fulls == { i \in 1..Len(emitted) : IsFull(i) }
\* init (lines 413-416) has run: the primary document is observed.
InitDone == "main" \in Range(handlers)

\* C13 (as claimed): the first event delivered in a capture session is a
\* Meta, whether the document had finished loading at start or not.
C13_MetaFirst ==
  emitted # << >> => emitted[1].type = "Meta"

\* C14 (as claimed): without cadence options and without an explicit
\* checkpoint call, the session delivers one Meta+FullSnapshot pair, the
\* initial one, and no IncrementalSnapshot before it.
C14_SingleInitialPair ==
  (recorder /\ checkoutEveryNth = 0 /\ checkoutEveryNms = 0 /\ ~explicit)
    => /\ Cardinality(Metas) <= 1
       /\ Cardinality(Fulls) <= 1
       /\ \A j \in Fulls : j - 1 \in Metas
       /\ \A i \in 1..Len(emitted) : IsInc(i) => FullsBefore(i) # {}
       /\ InitDone => Cardinality(Fulls) = 1

\* ----------------------------------------------- embedded documents
\* The step is the detection of a tree mutation in the embedded document.
FrameMutationStep == lastOp'.name = "mutation" /\ lastOp'.arg = "frame"
NewIsTreeMutation(i) ==
  emitted'[i].type = "IncrementalSnapshot" /\ emitted'[i].source = "Mutation"

\* C15 (as claimed): a mutation of an embedded document never causes a
\* FullSnapshot to be delivered.
C15_FrameMutationNoFull ==
  [][ FrameMutationStep
        => \A i \in NewEvents : emitted'[i].type # "FullSnapshot" ]_vars

\* C15 (amended): a mutation of an embedded document is delivered as a
\* tree-mutation IncrementalSnapshot, or stays queued in a paused or locked
\* buffer; it causes a FullSnapshot only through the cadence rule, which
\* counts it like any other IncrementalSnapshot: the FullSnapshot then
\* follows a Meta with isCheckout set, and without cadence options nothing
\* but tree mutations is delivered.
C15_FrameMutationCadenceOnly ==
  [][ FrameMutationStep
        => /\ \A i \in NewEvents :
                \/ NewIsTreeMutation(i)
                \/ emitted'[i].type \in {"Meta", "FullSnapshot"}
           /\ \A i \in NewEvents :
                emitted'[i].type = "FullSnapshot"
                  => /\ i - 1 \in NewEvents
                     /\ emitted'[i - 1].type = "Meta"
                     /\ emitted'[i - 1].isCheckout = "true"
                     /\ \E k \in NewEvents : k < i - 1 /\ emitted'[k].triggered
           /\ (checkoutEveryNth = 0 /\ checkoutEveryNms = 0)
                => \A i \in NewEvents : NewIsTreeMutation(i)
           /\ \/ \E i \in NewEvents :
                   NewIsTreeMutation(i) /\ nextMut \in Range(emitted'[i].muts)
              \/ \E b \in 1..Len(mutationBuffers') :
                   /\ mutationBuffers'[b].doc = "frame"
                   /\ nextMut \in Range(mutationBuffers'[b].pending)
                   /\ mutationBuffers'[b].frozen \/ mutationBuffers'[b].locked ]_vars

C15_Witness ==
  /\ lastOp.name = "mutation" /\ lastOp.arg = "frame"
  /\ IsTreeMutation(Len(emitted))
  /\ nextMut - 1 \in Range(emitted[Len(emitted)].muts)
  /\ Cardinality(Fulls) = 1

\* ------------------------------------------------ checkpoint effects
\* C16 (as claimed): an explicit checkpoint leaves every paused buffer
\* paused and delivers none of the mutations withheld by the pause.
C16_CheckpointKeepsPause ==
  [][ lastOp'.name = "checkpoint"
        => /\ \A b \in 1..Len(mutationBuffers) :
                mutationBuffers[b].frozen => mutationBuffers'[b].frozen
           /\ \A i \in NewEvents :
                Range(emitted'[i].muts) \cap Range(pauseSeq) = {} ]_vars

\* The explicit checkpoint of this step got no tree from the serializer: its
\* Meta is the one delivered with the argument of the call.
CheckpointFailedStep ==
  /\ lastOp'.name = "checkpoint"
  /\ \E m \in NewEvents :
       /\ emitted'[m].type = "Meta"
       /\ emitted'[m].isCheckout = lastOp'.arg
       /\ emitted'[m].ser = "fail"

\* C17 (as claimed): a checkpoint whose serialization returns no tree
\* delivers no FullSnapshot and leaves the Identity Registry, the
\* since-checkpoint counter and the baseline timestamp as they were.
C17_FailureLeavesBookkeeping ==
  [][ CheckpointFailedStep
        => /\ \A i \in NewEvents : emitted'[i].type # "FullSnapshot"
           /\ mirror' = mirror
           /\ incrementalSnapshotCount' = incrementalSnapshotCount
           /\ lastFullSnapshotEvent' = lastFullSnapshotEvent ]_vars

\* C18: the consumer receives isCheckout = true only with a Meta; every
\* FullSnapshot, the one of a checkpoint called with isCheckout = true
\* included, and every other event is delivered with the argument unset.
C18_CheckoutFlagOnMetaOnly ==
  \A i \in 1..Len(emitted) :
    /\ emitted[i].isCheckout # "undefined" => IsMeta(i)
    /\ (IsMeta(i) /\ emitted[i].isCheckout = "true" /\ emitted[i].ser = "ok")
         => /\ i < Len(emitted)
            /\ IsFull(i + 1)
            /\ emitted[i + 1].isCheckout = "undefined"

C18_Witness ==
  \E i \in 1..(Len(emitted) - 1) :
    /\ IsInc(i) /\ emitted[i].triggered
    /\ IsMeta(i + 1) /\ emitted[i + 1].isCheckout = "true"
    /\ i + 2 <= Len(emitted)
    /\ IsFull(i + 2) /\ emitted[i + 2].isCheckout = "undefined"

\* C19 (as claimed): whenever an event enters the emit pipeline and some
\* Mutation Buffer is paused, the first registered buffer is paused.
C19_FirstBufferStandsForAll ==
  \A i \in 1..Len(emitted) : emitted[i].enterFrozen => emitted[i].enterFirst

\* -------------------------------------------------------- termination
\* The tree-mutation events a step delivers out of the buffers' queues, and
\* the mutations that can be in a queue during the step: those withheld
\* before it and those detected in it.
FlushEvents == { i \in NewEvents : NewIsTreeMutation(i) /\ emitted'[i].muts # << >> }
Withheld == Cardinality(AllPending(mutationBuffers)) + (nextMut' - nextMut)

\* C20: every entry into the emit pipeline delivers one event, and one
\* handler enters it a bounded number of times: a flush out of a queue
\* happens at most once per withheld mutation, and the handler's own event
\* and every flush are each followed by at most one checkpoint (a Meta and a
\* FullSnapshot), for every checkoutEveryNth, pause state and serializer
\* outcome.
C20_EmitRecursionBounded ==
  [][ /\ Cardinality(FlushEvents) <= Withheld
      /\ Cardinality(NewEvents) <= 3 * (1 + Cardinality(FlushEvents)) ]_vars

C20_Witness ==
  \E i \in 1..(Len(emitted) - 5) :
    /\ checkoutEveryNth = 1
    /\ IsInc(i) /\ emitted[i].triggered
    /\ IsMeta(i + 1) /\ IsFull(i + 2)
    /\ IsTreeMutation(i + 3) /\ emitted[i + 3].triggered
    /\ IsMeta(i + 4) /\ IsFull(i + 5)

====
